---- MODULE Spec2Model ----
(***************************************************************************)
(* A model of the Money value type of src/src/money.py (Fowler's Money     *)
(* pattern: an integer amount of minor units).                             *)
(*                                                                         *)
(* Python values are records [t, n, d, s, m]:                              *)
(*   t = "int"    an int, of any size: n * M, where n is its sign (1 or    *)
(*                -1, and 1 for 0) and m the digits in base 2^15 of the    *)
(*                natural number M, the least significant first; d = 0     *)
(*   t = "bool"   True is the int 1 and False the int 0, of type bool      *)
(*   t = "float"  an IEEE double. A finite one is n * M * 2^d exactly:     *)
(*                n is its sign (1 or -1), m the digits in base 2^15 of    *)
(*                the odd natural number M, the least significant first,   *)
(*                and d its exponent; a zero has no digits and d = 0.      *)
(*                d = 1024 is a non-finite double: with no digits the      *)
(*                infinity of sign n, with a digit a nan                   *)
(*   t = "str"    the string whose characters have the code points s       *)
(*   t = "Decimal"  the decimal M / 10^d: m the digits of M as an int's    *)
(*   t = "Money"  the Money instance with identity n: heap[n] is the       *)
(*                value of its private attribute __amount                  *)
(*   t = "None"   no value                                                 *)
(*   any other t  the exception of that class, raised                      *)
(* Every operation of the class is an operator from the heap and its       *)
(* operands to [heap, res]: the heap it leaves and what it returns or      *)
(* raises.                                                                 *)
(***************************************************************************)
EXTENDS Integers, Sequences, FiniteSets

VARIABLES heap, pc, call, res

vars == <<heap, pc, call, res>>

\* ------------------------------------------------------------- bounds

\* Operand Money amounts range over -MaxAmt..MaxAmt ...
MaxAmt == 5
\* ... and over 50*h - 1 .. 50*h + 1 for h in -MaxHalf..MaxHalf (the amounts at
\* and next to whole and half major units).
MaxHalf == 5
\* Plain integer operands range over -MaxInt..MaxInt.
MaxInt == 4
\* Finite float operands are n, n/2 and n/10 for n in -MaxNum..MaxNum.
MaxNum == 3
\* Currency strings write 0..MaxMajor major units.
MaxMajor == 2
\* Large amounts are 2^53 + k and 100 * (2^53 + k) for k in 0..MaxOver, and
\* their opposites.
MaxOver == 3

\* ------------------------------------------------------------- values

V(t, n, d) == [t |-> t, n |-> n, d |-> d, s |-> <<>>, m |-> <<>>]

\* The int of a sign and a magnitude.
Long(sign, N) ==
    [t |-> "int", n |-> IF N = <<>> THEN 1 ELSE sign, d |-> 0, s |-> <<>>, m |-> N]

PyBool(b) == [t |-> "bool", n |-> 1, d |-> 0, s |-> <<>>, m |-> IF b THEN <<1>> ELSE <<>>]

PyStr(s) == [t |-> "str", n |-> 0, d |-> 1, s |-> s, m |-> <<>>]

MoneyRef(id) == V("Money", id, 1)

None == V("None", 0, 1)

Raise(e) == V(e, 0, 1)

IsError(v) == v.t \in {"ValueError", "ZeroDivisionError", "OverflowError", "InvalidOperation"}

Out(h, r) == [heap |-> h, res |-> r]

\* isinstance(x, int): a bool is an int.
IsInt(x) == x.t \in {"int", "bool"}

\* -------------------------------------- natural numbers of any size

Abs(x) == IF x < 0 THEN -x ELSE x

\* A natural number is the sequence of its digits in base 2^15, the least
\* significant first and the last one not 0: the 53 bits of a double's
\* significand are four digits.
Base == 2 ^ 15

Smaller(a, b) == IF a < b THEN a ELSE b

Larger(a, b) == IF a > b THEN a ELSE b

Digit(a, i) == IF i \in DOMAIN a THEN a[i] ELSE 0

\* a without its leading zeros.
Trim(a) ==
    SubSeq(a, 1, CHOOSE i \in 0..Len(a) :
                     (i = 0 \/ a[i] # 0) /\ \A j \in (i + 1)..Len(a) : a[j] = 0)

\* The natural number n < 2^31.
Natural(n) == Trim(<<n % Base, (n \div Base) % Base, n \div (Base * Base)>>)

RECURSIVE Value(_)
\* The value of a < 2^31.
Value(a) == IF a = <<>> THEN 0 ELSE a[1] + Base * Value(Tail(a))

\* The int k of the model's text, -2^31 < k < 2^31.
PyInt(k) == Long(IF k < 0 THEN -1 ELSE 1, Natural(Abs(k)))

\* The bit of weight 2^(i - 1) of a.
Bit(a, i) == (Digit(a, ((i - 1) \div 15) + 1) \div (2 ^ ((i - 1) % 15))) % 2

\* The number of bits of a: 0 for 0.
BitLength(a) ==
    IF a = <<>> THEN 0
    ELSE 15 * (Len(a) - 1) + (CHOOSE k \in 1..15 : a[Len(a)] \div (2 ^ (k - 1)) = 1)

\* The number of zero bits that end a # 0.
LowZeros(a) ==
    LET i == CHOOSE j \in DOMAIN a : a[j] # 0 /\ \A k \in 1..(j - 1) : a[k] = 0
    IN  15 * (i - 1) + (CHOOSE k \in 0..14 : a[i] % (2 ^ (k + 1)) = 2 ^ k)

\* a * 2^k.
ShiftLeft(a, k) ==
    IF a = <<>> THEN <<>>
    ELSE [i \in 1..(k \div 15) |-> 0] \o Trim([i \in 1..(Len(a) + 1) |->
             ((Digit(a, i) * 2 ^ (k % 15)) % Base) + (Digit(a, i - 1) \div (2 ^ (15 - (k % 15))))])

\* floor(a / 2^k).
ShiftRight(a, k) ==
    Trim([i \in 1..(Len(a) - (k \div 15)) |->
        (a[i + (k \div 15)] \div (2 ^ (k % 15)))
            + (Digit(a, i + 1 + (k \div 15)) % (2 ^ (k % 15))) * 2 ^ (15 - (k % 15))])

\* -1, 0 or 1 as a < b, a = b or a > b.
Compare(a, b) ==
    IF a = b THEN 0
    ELSE LET differ == {i \in DOMAIN a \cup DOMAIN b : Digit(a, i) # Digit(b, i)}
             top    == CHOOSE i \in differ : \A j \in differ : j <= i
         IN  IF differ = {} THEN 0 ELSE IF Digit(a, top) < Digit(b, top) THEN -1 ELSE 1

\* Whether a + b + carry carries into the digit i: from the carry or from
\* digits of sum Base or more, through digits of sum Base - 1.
Carries(a, b, carry, i) ==
    \E j \in 0..(i - 1) :
        /\ IF j = 0 THEN carry = 1 ELSE Digit(a, j) + Digit(b, j) >= Base
        /\ \A k \in (j + 1)..(i - 1) : Digit(a, k) + Digit(b, k) = Base - 1

\* a + b + carry, for a carry of 0 or 1.
Plus(a, b, carry) ==
    IF a = <<>> /\ carry = 0 THEN Trim(b)
    ELSE IF b = <<>> /\ carry = 0 THEN Trim(a)
    ELSE Trim([i \in 1..(Larger(Len(a), Len(b)) + 1) |->
                  (Digit(a, i) + Digit(b, i) + (IF Carries(a, b, carry, i) THEN 1 ELSE 0)) % Base])

\* Whether a - b borrows from the digit i: for digits of a less than those of
\* b, through digits that are equal.
Borrows(a, b, i) ==
    \E j \in 1..(i - 1) :
        /\ Digit(a, j) < Digit(b, j)
        /\ \A k \in (j + 1)..(i - 1) : Digit(a, k) = Digit(b, k)

\* a - b for a >= b.
Subtract(a, b) ==
    IF b = <<>> THEN Trim(a)
    ELSE Trim([i \in 1..Len(a) |->
                  (a[i] - Digit(b, i) - (IF Borrows(a, b, i) THEN 1 ELSE 0)) % Base])

\* a * Base^k.
Raised(a, k) == IF a = <<>> THEN <<>> ELSE [i \in 1..k |-> 0] \o a

\* b * c for a digit c: the low digits of the products of the digits, and
\* their high digits one place up.
TimesDigit(b, c) ==
    Plus([i \in DOMAIN b |-> (b[i] * c) % Base],
         <<0>> \o [i \in DOMAIN b |-> (b[i] * c) \div Base], 0)

RECURSIVE Multiply(_, _)
\* a * b, from the products of b by the lower half of the digits of an a of
\* several digits and by the others.
Multiply(a, b) ==
    IF a = <<>> \/ b = <<>> THEN <<>>
    ELSE IF Len(a) = 1 THEN TimesDigit(b, a[1])
    ELSE Plus(Multiply(Trim(SubSeq(a, 1, Len(a) \div 2)), b),
              Raised(Multiply(SubSeq(a, (Len(a) \div 2) + 1, Len(a)), b), Len(a) \div 2), 0)

\* The quotient of the two leading digits of rest by the leading digit of b.
LeadingQuotient(rest, b) ==
    (Digit(rest, Len(b) + 1) * Base + Digit(rest, Len(b))) \div b[Len(b)]

\* The digit q with q * b <= rest < (q + 1) * b, one of guess, guess - 1 and
\* guess - 2.
QuotientDigit(guess, rest, b) ==
    IF Compare(TimesDigit(b, guess), rest) <= 0 THEN guess
    ELSE IF Compare(TimesDigit(b, guess - 1), rest) <= 0 THEN guess - 1
    ELSE guess - 2

\* The quotient digit q, and what q * b leaves of rest.
WithDigit(q, rest, b) == [q |-> <<q>>, r |-> Subtract(rest, TimesDigit(b, q))]

\* One step of long division by b, whose last digit is 2^14 or more: the
\* quotient, of one digit, and the remainder of rest < b * Base. The digit is at
\* most 2 less than the quotient of the two leading digits of rest by the
\* leading digit of b (Knuth, 4.3.1, theorem B).
DivideStep(rest, b) ==
    WithDigit(QuotientDigit(Smaller(LeadingQuotient(rest, b), Base - 1), rest, b), rest, b)

\* The quotient whose digits are those of low.q, as many as digits, and above
\* them those of high, with the remainder of low.
Joined(high, low, digits) == [q |-> [i \in 1..digits |-> Digit(low.q, i)] \o high, r |-> low.r]

RECURSIVE DivideDigits(_, _, _)
\* The division of a by b from that of the digits of a above the lowest ones,
\* as many as digits.
DivideLow(high, a, b, digits) ==
    Joined(high.q, DivideDigits(Trim([i \in 1..digits |-> Digit(a, i)] \o high.r), b, digits),
           digits)

\* Long division of a < b * Base^digits by b, whose last digit is 2^14 or
\* more: the quotient, of that many digits at most, and the remainder. The upper
\* digits of a give the upper half of the quotient's digits, and what they
\* leave, with the other digits of a, the lower half.
DivideDigits(a, b, digits) ==
    IF a = <<>> THEN [q |-> <<>>, r |-> <<>>]
    ELSE IF digits = 1 THEN DivideStep(a, b)
    ELSE DivideLow(DivideDigits(SubSeq(a, (digits \div 2) + 1, Len(a)), b, digits - (digits \div 2)),
                   a, b, digits \div 2)

\* The quotient and remainder of the division scaled by 2^scale.
Unscaled(qr, scale) == [q |-> Trim(qr.q), r |-> ShiftRight(qr.r, scale)]

\* The quotient q and the remainder r of a by b # 0: b and a are scaled for
\* the last digit of b to be 2^14 or more.
DivMod(a, b) ==
    Unscaled(DivideDigits(ShiftLeft(a, 15 * Len(b) - BitLength(b)),
                          ShiftLeft(b, 15 * Len(b) - BitLength(b)),
                          Larger(Len(a) - Len(b) + 2, 1)),
             15 * Len(b) - BitLength(b))

\* ----------------------------------------------------------- ints

\* The sign of sx * X + sy * Y: that of the larger, and 1 for the sum 0 of a
\* number and its opposite.
SumSign(sx, X, sy, Y) ==
    IF sx = sy \/ Compare(X, Y) > 0 THEN sx
    ELSE IF Compare(X, Y) < 0 THEN sy
    ELSE 1

SumMagnitude(sx, X, sy, Y) ==
    IF sx = sy THEN Plus(X, Y, 0)
    ELSE IF Compare(X, Y) >= 0 THEN Subtract(X, Y)
    ELSE Subtract(Y, X)

\* a + b.
IntAdd(a, b) == Long(SumSign(a.n, a.m, b.n, b.m), SumMagnitude(a.n, a.m, b.n, b.m))

\* -a.
IntNeg(a) == Long(-a.n, a.m)

\* +a: the int a bool is.
IntPos(a) == Long(a.n, a.m)

\* a - b.
IntSub(a, b) == IntAdd(a, IntNeg(b))

\* abs(a).
IntAbs(a) == Long(1, a.m)

\* a * b.
IntMul(a, b) == Long(a.n * b.n, Multiply(a.m, b.m))

\* a == b.
IntEq(a, b) == a.n = b.n /\ a.m = b.m

\* a < b.
IntLess(a, b) ==
    IF a.n # b.n THEN a.n < b.n
    ELSE IF a.n = 1 THEN Compare(a.m, b.m) < 0
    ELSE Compare(a.m, b.m) > 0

\* The floor of sign * (q + r / b), for the quotient q and the remainder r of a
\* division by b.
Floor(sign, qr) ==
    IF sign = 1 THEN Long(1, qr.q)
    ELSE Long(-1, Plus(qr.q, <<>>, IF qr.r = <<>> THEN 0 ELSE 1))

\* floor(a / b) for b # 0: Python's int // int.
FloorDiv(a, b) == Floor(a.n * b.n, DivMod(a.m, b.m))

\* ---------------------------------------------------- IEEE-754 doubles

Zero(sign) == [t |-> "float", n |-> sign, d |-> 0, s |-> <<>>, m |-> <<>>]

Infinity(sign) == [t |-> "float", n |-> sign, d |-> 1024, s |-> <<>>, m |-> <<>>]

Inf == Infinity(1)

NegInf == Infinity(-1)

NaN == [t |-> "float", n |-> 1, d |-> 1024, s |-> <<>>, m |-> <<1>>]

IsNaN(x) == x.t = "float" /\ x.d = 1024 /\ x.m # <<>>

IsInf(x) == x.t = "float" /\ x.d = 1024 /\ x.m = <<>>

IsFinite(x) == ~(x.t = "float" /\ x.d = 1024)

\* x == 0 for a plain number x: an int 0, a float 0.0 or -0.0.
IsZero(x) == x.d = 0 /\ x.m = <<>>

\* The double sign * N * 2^e for N # 0 that zeros low bits end.
Reduced(sign, N, e, zeros) ==
    [t |-> "float", n |-> sign, d |-> e + zeros, s |-> <<>>, m |-> ShiftRight(N, zeros)]

\* The double sign * N * 2^e, for N of at most 53 bits: an infinity from
\* 2^1024 on.
Double(sign, N, e) ==
    IF N = <<>> THEN Zero(sign)
    ELSE IF e + BitLength(N) > 1024 THEN Infinity(sign)
    ELSE Reduced(sign, N, e, LowZeros(N))

\* Whether (N + f) / 2^drop rounds up to a whole number, a half going to the
\* even one: f is 0, or with more some fraction 0 < f < 1.
RoundsUp(N, drop, more) ==
    /\ Bit(N, drop) = 1
    /\ more \/ Bit(N, drop + 1) = 1 \/ \E i \in 1..(drop - 1) : Bit(N, i) = 1

\* (N + f) / 2^drop rounded to a whole number.
Rounded(N, drop, more) ==
    IF drop = 0 THEN N
    ELSE Plus(ShiftRight(N, drop), <<>>, IF RoundsUp(N, drop, more) THEN 1 ELSE 0)

\* The low bits of N * 2^e that no double holds: those beyond the 53 of a
\* significand, and those of a weight below 2^-1074, the last bit of a
\* subnormal double.
Excess(N, e) == Larger(Larger(BitLength(N) - 53, -1074 - e), 0)

\* The double nearest to sign * (N + f) * 2^e, a value halfway between two
\* doubles going to the one of even significand: f is 0, or with more some
\* fraction 0 < f < 1 that N, of 55 bits or more, leaves out. Below 2^-1022 the
\* doubles are the multiples of 2^-1074, and what is nearest to 0 is a zero.
Nearest(sign, N, e, more) ==
    IF N = <<>> THEN Zero(sign)
    ELSE Double(sign, Rounded(N, Excess(N, e), more), e + Excess(N, e))

\* The double nearest to the int a, a value halfway between two doubles going
\* to the one of even significand, and an infinity from 2^1024 - 2^970 on.
FloatOfInt(a) == Nearest(a.n, a.m, 0, FALSE)

\* -x.
FloatNeg(x) == IF IsNaN(x) THEN NaN ELSE [x EXCEPT !.n = -x.n]

\* x * y.
FloatMul(x, y) ==
    IF IsNaN(x) \/ IsNaN(y) THEN NaN
    ELSE IF IsInf(x) \/ IsInf(y)
    THEN (IF IsZero(x) \/ IsZero(y) THEN NaN ELSE Infinity(x.n * y.n))
    ELSE Nearest(x.n * y.n, Multiply(x.m, y.m), x.d + y.d, FALSE)

\* The double nearest to sign * (q + f) * 2^e, for the quotient q, of 55 bits
\* or more, and the remainder r of a division by b: f is r / b, and with more
\* somewhat more than that, short of 1.
Inexact(sign, qr, e, more) == Nearest(sign, qr.q, e, more \/ qr.r # <<>>)

\* The double nearest to sign * (A / B) * 2^e for A # 0 and B # 0, from the
\* quotient of A * 2^shift by B, of 55 bits or more: shift is 55 and the bits B
\* has more than A; the bits a negative shift drops count as a remainder.
Quotient(sign, A, B, e, shift) ==
    Inexact(sign, DivMod(IF shift >= 0 THEN ShiftLeft(A, shift) ELSE ShiftRight(A, -shift), B),
            e - shift, shift < 0 /\ LowZeros(A) < -shift)

\* C's x / y: a division by zero gives an infinity, and a nan for 0 / 0.
FloatDiv(x, y) ==
    IF IsNaN(x) \/ IsNaN(y) \/ (IsInf(x) /\ IsInf(y)) \/ (IsZero(x) /\ IsZero(y)) THEN NaN
    ELSE IF IsInf(x) \/ IsZero(y) THEN Infinity(x.n * y.n)
    ELSE IF IsInf(y) \/ IsZero(x) THEN Zero(x.n * y.n)
    ELSE Quotient(x.n * y.n, x.m, y.m, x.d - y.d, 55 + BitLength(y.m) - BitLength(x.m))

\* The double nearest to (sx * X + sy * Y) * 2^e.
Sum(sx, X, sy, Y, e) == Nearest(SumSign(sx, X, sy, Y), SumMagnitude(sx, X, sy, Y), e, FALSE)

\* The exponent of the power of 2 next above the finite x # 0.
Top(x) == x.d + BitLength(x.m)

\* x + y for x # 0 and a y # 0 of the sign given and so small beside x, less
\* than 2^-59 of it, that only its sign tells: x is scaled to 57 bits, and y
\* adds or takes a fraction of the last one.
Beside(x, sign) ==
    Nearest(x.n,
            IF sign = x.n THEN ShiftLeft(x.m, 57 - BitLength(x.m))
            ELSE Subtract(ShiftLeft(x.m, 57 - BitLength(x.m)), <<1>>),
            x.d - (57 - BitLength(x.m)),
            TRUE)

\* C's x + y. An infinity and its opposite add to a nan, a zero and its
\* opposite to 0.0.
FloatAdd(x, y) ==
    IF IsNaN(x) \/ IsNaN(y) \/ (IsInf(x) /\ IsInf(y) /\ x.n # y.n) THEN NaN
    ELSE IF IsInf(x) THEN x
    ELSE IF IsInf(y) THEN y
    ELSE IF IsZero(x) /\ IsZero(y) THEN Zero(IF x.n = y.n THEN x.n ELSE 1)
    ELSE IF IsZero(x) THEN y
    ELSE IF IsZero(y) THEN x
    ELSE IF Abs(Top(x) - Top(y)) >= 60
    THEN Beside(IF Top(x) > Top(y) THEN x ELSE y, IF Top(x) > Top(y) THEN y.n ELSE x.n)
    ELSE Sum(x.n, ShiftLeft(x.m, x.d - Smaller(x.d, y.d)),
             y.n, ShiftLeft(y.m, y.d - Smaller(x.d, y.d)), Smaller(x.d, y.d))

\* C's x - y.
FloatSub(x, y) == FloatAdd(x, FloatNeg(y))

\* x > 0: no nan is.
Positive(x) == x.n = 1 /\ ~IsZero(x) /\ ~IsNaN(x)

\* C's x > y: false when one is a nan.
FloatGreater(x, y) == Positive(FloatSub(x, y))

\* The remainder of 2^k * h * h by b, for h < b.
SquareMod(h, k, b) ==
    IF h = <<>> THEN <<>> ELSE DivMod(ShiftLeft(Multiply(h, h), k), b).r

RECURSIVE PowMod(_, _)
\* The remainder of 2^k by b, by repeated squaring.
PowMod(k, b) ==
    IF k < 15 THEN DivMod(<<2 ^ k>>, b).r
    ELSE SquareMod(PowMod(k \div 2, b), k % 2, b)

\* The remainder of the finite x # 0 by the finite y # 0, of the sign of x. In
\* units of the smaller of the exponents it is that of x.m by y.m, one of them
\* times a power of 2: for that of x.m, the remainder of the power will do.
Remainder(x, y) ==
    Double(x.n,
           DivMod(IF x.d <= y.d THEN x.m ELSE Multiply(x.m, PowMod(x.d - y.d, y.m)),
                  IF x.d <= y.d THEN ShiftLeft(y.m, y.d - x.d) ELSE y.m).r,
           Smaller(x.d, y.d))

\* C's fmod(x, y): the remainder of x by y, of the sign of x; a nan for an
\* infinite x or y = 0.
FloatMod(x, y) ==
    IF IsNaN(x) \/ IsNaN(y) \/ IsInf(x) \/ IsZero(y) THEN NaN
    ELSE IF IsInf(y) \/ IsZero(x) THEN x
    ELSE Remainder(x, y)

\* C's floor(x).
FloatFloor(x) ==
    IF x.d >= 0 THEN x
    ELSE Double(x.n, Plus(ShiftRight(x.m, -x.d), <<>>, IF x.n > 0 THEN 0 ELSE 1), 0)

\* float_floor_div's last step: div snapped to the nearest whole number,
\* floordiv = floor(div) or the next one.
Snapped(div, floordiv) ==
    IF FloatGreater(FloatSub(div, floordiv), Double(1, <<1>>, -1))
    THEN FloatAdd(floordiv, Double(1, <<1>>, 0))
    ELSE floordiv

\* The quotient div of x by y as a whole number: a zero of the sign of x / y
\* when it is zero.
Floored(x, y, div) ==
    IF IsZero(div) THEN Zero(x.n * y.n) ELSE Snapped(div, FloatFloor(div))

\* The quotient (x - mod) / y of float_floor_div, less 1 when mod and y differ
\* in sign.
QuotientLess(x, y, mod) ==
    IF ~IsZero(mod) /\ ((y.n < 0) # (mod.n < 0))
    THEN FloatSub(FloatDiv(FloatSub(x, mod), y), Double(1, <<1>>, 0))
    ELSE FloatDiv(FloatSub(x, mod), y)

\* x // y for y # 0, as float_floor_div computes it: from mod = fmod(x, y) the
\* quotient (x - mod) / y, snapped to a whole number.
FloatFloorDiv(x, y) == Floored(x, y, QuotientLess(x, y, FloatMod(x, y)))

\* a / b for the ints a and b # 0, as long_true_divide computes it: the double
\* nearest to the exact quotient, a zero of the quotient's sign for a = 0, and
\* an infinity where the code raises OverflowError.
TrueDivide(a, b) ==
    IF a.m = <<>> THEN Zero(a.n * b.n)
    ELSE Quotient(a.n * b.n, a.m, b.m, 0, 55 + BitLength(b.m) - BitLength(a.m))

\* The double x an int gives, or the OverflowError raised when it is too large
\* for a double.
Representable(x) == IF IsInf(x) THEN Raise("OverflowError") ELSE x

\* The float n / d for the ints n and d > 0 of the model's text: the double
\* nearest to the quotient.
PyFloat(n, d) == TrueDivide(PyInt(n), PyInt(d))

\* The integer nearest to N * 2^e, a half going to the even neighbour.
NearestInteger(N, e) == IF e >= 0 THEN ShiftLeft(N, e) ELSE Rounded(N, -e, FALSE)

\* The int nearest to the finite double x, an exact half going to the even
\* neighbour: round() of a float, and Decimal.quantize under ROUND_HALF_EVEN.
RoundHalfEven(x) == Long(x.n, NearestInteger(x.m, x.d))

\* round(x), one argument, or the exception raised computing x: the int of an
\* int or bool, a float rounded half-even to an int; a nan raises ValueError
\* and an infinity OverflowError.
PyRound(x) ==
    IF IsError(x) THEN x
    ELSE IF IsInt(x) THEN IntPos(x)
    ELSE IF IsNaN(x) THEN Raise("ValueError")
    ELSE IF IsInf(x) THEN Raise("OverflowError")
    ELSE RoundHalfEven(x)

\* The float of the sign that is nearest to hundredths / 100.
Hundredths(sign, hundredths) ==
    IF hundredths = <<>> THEN Zero(sign)
    ELSE Quotient(sign, hundredths, Natural(100), 0, 62 - BitLength(hundredths))

\* round(x, 2) for a finite float x, or the exception raised computing x: x to
\* two decimal places, half-even on its exact value, and the double nearest to
\* that.
PyRound2(x) ==
    IF IsError(x) THEN x
    ELSE Hundredths(x.n, NearestInteger(Multiply(Natural(100), x.m), x.d))

\* h * h * ten, for ten = 1 or 10.
TenfoldSquare(h, ten) == TimesDigit(Multiply(h, h), ten)

RECURSIVE PowerOfTen(_)
\* 10^k.
PowerOfTen(k) ==
    IF k = 0 THEN <<1>> ELSE TenfoldSquare(PowerOfTen(k \div 2), IF k % 2 = 1 THEN 10 ELSE 1)

\* int(Decimal(x).quantize(Decimal(1), ROUND_HALF_EVEN)) for a finite float x,
\* or the exception raised computing x: x rounded half-even to a whole number;
\* one of more digits than the 28 of the decimal context's precision raises
\* InvalidOperation.
Quantized(x) ==
    IF IsError(x) THEN x
    ELSE IF Compare(NearestInteger(x.m, x.d), PowerOfTen(28)) >= 0
    THEN Raise("InvalidOperation")
    ELSE RoundHalfEven(x)

\* math.floor(x) for a float x: an int; a nan raises ValueError and an infinity
\* OverflowError.
PyFloor(x) ==
    IF IsNaN(x) THEN Raise("ValueError")
    ELSE IF IsInf(x) THEN Raise("OverflowError")
    ELSE IF x.d >= 0 THEN Long(x.n, ShiftLeft(x.m, x.d))
    ELSE IF x.n > 0 THEN Long(1, ShiftRight(x.m, -x.d))
    ELSE Long(-1, Plus(ShiftRight(x.m, -x.d), <<>>, 1))

\* a op x for a float x and the int a, which is converted to the double fa:
\* an int too large for a double raises OverflowError.
FloatOp(op, fa, x) ==
    IF IsInf(fa) THEN Raise("OverflowError")
    ELSE CASE op = "mul" -> FloatMul(fa, x)
           [] op = "truediv" -> FloatDiv(fa, x)
           [] op = "floordiv" -> FloatFloorDiv(fa, x)

\* a * x for the int a: an int times an int is an int, an int times a float
\* the product of float(a) and x.
PyMul(a, x) ==
    IF IsInt(x) THEN IntMul(a, x) ELSE FloatOp("mul", FloatOfInt(a), x)

\* a / x for the int a and x # 0: always a float, correctly rounded.
PyTrueDiv(a, x) ==
    IF IsInt(x) THEN Representable(TrueDivide(a, x)) ELSE FloatOp("truediv", FloatOfInt(a), x)

\* a // x for the int a and x # 0: an int for an int, a float for a float.
PyFloorDiv(a, x) ==
    IF IsInt(x) THEN FloorDiv(a, x) ELSE FloatOp("floordiv", FloatOfInt(a), x)

\* ------------------------------------------------ strings and Decimal

\* ord(c) for the ASCII characters the model writes.
Ord(c) ==
    CASE c = "0" -> 48 [] c = "1" -> 49 [] c = "2" -> 50 [] c = "3" -> 51
      [] c = "4" -> 52 [] c = "5" -> 53 [] c = "6" -> 54 [] c = "7" -> 55
      [] c = "8" -> 56 [] c = "9" -> 57 [] c = "." -> 46 [] c = "," -> 44
      [] c = "$" -> 36 [] c = "-" -> 45

\* The str of the characters cs.
Text(cs) == PyStr([i \in DOMAIN cs |-> Ord(cs[i])])

\* The code points of the digit zero of every script (Unicode category Nd,
\* Unicode 14.0): the nine that follow each are its digits one to nine.
DigitZeros ==
    {48, 1632, 1776, 1984, 2406, 2534, 2662, 2790, 2918, 3046, 3174, 3302, 3430,
     3558, 3664, 3792, 3872, 4160, 4240, 6112, 6160, 6470, 6608, 6784, 6800, 6992,
     7088, 7232, 7248, 42528, 43216, 43264, 43472, 43504, 43600, 44016, 65296,
     66720, 68912, 69734, 69872, 69942, 70096, 70384, 70736, 70864, 71248, 71360,
     71472, 71904, 72016, 72784, 73040, 73120, 92768, 92864, 93008, 120782, 120792,
     120802, 120812, 120822, 123200, 123632, 125264, 130032}

\* The characters \d matches: the decimal digits of every script.
IsDigit(c) == \E z \in DigitZeros : c \in z..(z + 9)

DigitVal(c) == c - (CHOOSE z \in DigitZeros : c \in z..(z + 9))

IsDot(c) == c = Ord(".")

\* The characters re.sub(r'[^\d.]', '', ...) keeps.
IsDigitOrDot(c) == IsDigit(c) \/ IsDot(c)

RECURSIVE DigitsToInt(_)
\* The natural number, of any size, a sequence of decimal digits writes: the
\* one its first half writes, times the power of ten of the digits after it,
\* and the one the others write.
DigitsToInt(ds) ==
    IF ds = <<>> THEN <<>>
    ELSE IF Len(ds) = 1 THEN Trim(<<DigitVal(ds[1])>>)
    ELSE Plus(Multiply(DigitsToInt(SubSeq(ds, 1, Len(ds) \div 2)),
                       PowerOfTen(Len(ds) - (Len(ds) \div 2))),
              DigitsToInt(SubSeq(ds, (Len(ds) \div 2) + 1, Len(ds))), 0)

\* The position of the first "." of a sequence with one.
DotAt(cs) == CHOOSE i \in DOMAIN cs : IsDot(cs[i]) /\ \A j \in 1..(i - 1) : ~IsDot(cs[j])

\* Decimal(text) for a text of digits and points: the exact decimal of
\* coefficient m and d digits after the point, or InvalidOperation when the
\* text has no digit or more than one point.
Decimal(cs) ==
    LET digits == SelectSeq(cs, IsDigit)
        dots   == Len(SelectSeq(cs, IsDot))
    IN  IF digits = <<>> \/ dots > 1 THEN Raise("InvalidOperation")
        ELSE [t |-> "Decimal", n |-> 1, d |-> IF dots = 0 THEN 0 ELSE Len(cs) - DotAt(cs),
              s |-> <<>>, m |-> DigitsToInt(digits)]

\* ----------------------------------------------------- the Money class

\* __assert_amount as isinstance(amount, (int, float)).
__assert_amount_numeric(amount) ==
    IF ~(IsInt(amount) \/ amount.t = "float") THEN Raise("ValueError") ELSE None

__assert_amount(amount) ==
    IF ~IsInt(amount) THEN Raise("ValueError") ELSE None

__assert_operand(operand) ==
    IF ~(IsInt(operand) \/ operand.t = "float") THEN Raise("ValueError") ELSE None

\* Money(amount), self.__class__(amount): a new instance holding amount.
__init__(h, amount) ==
    IF IsError(__assert_amount(amount)) THEN Out(h, __assert_amount(amount))
    ELSE Out(Append(h, amount), MoneyRef(Len(h) + 1))

\* Money(value), self.__class__(value) for a value computed on the way: an
\* exception raised computing it leaves before the call.
New(h, value) == IF IsError(value) THEN Out(h, value) ELSE __init__(h, value)

\* The property amount.
amount(h, self) == h[self]

instance(h, self, amt) ==
    IF IsError(__assert_amount(amt)) THEN Out(h, __assert_amount(amt))
    ELSE __init__(h, amt)

\* Money(floor(amount * 100)).
from_float(h, amt) ==
    IF amt.t # "float" THEN Out(h, Raise("ValueError"))
    ELSE New(h, PyFloor(FloatMul(amt, FloatOfInt(PyInt(100)))))

\* Money.from_float(float(value)) for the Decimal value, or the
\* InvalidOperation raised instead of it: float(value) is the double nearest to
\* the decimal, an infinity when it is above every double.
from_decimal(h, value) ==
    IF IsError(value) THEN Out(h, value)
    ELSE from_float(h, TrueDivide(Long(1, value.m), Long(1, PowerOfTen(value.d))))

from_string(h, currency_str) ==
    IF currency_str.t # "str" THEN Out(h, Raise("ValueError"))
    ELSE from_decimal(h, Decimal(SelectSeq(currency_str.s, IsDigitOrDot)))

__add__(h, self, other) ==
    IF other.t = "Money" THEN __init__(h, IntAdd(amount(h, self), amount(h, other.n)))
    ELSE IF IsError(__assert_amount(other)) THEN Out(h, __assert_amount(other))
    ELSE __init__(h, IntAdd(amount(h, self), other))

__radd__(h, self, other) == __add__(h, self, other)

\* __sub__ with its operands the other way round.
__sub__reversed(h, self, other) ==
    IF other.t = "Money" THEN __init__(h, IntSub(amount(h, other.n), amount(h, self)))
    ELSE IF IsError(__assert_amount(other)) THEN Out(h, __assert_amount(other))
    ELSE __init__(h, IntSub(other, amount(h, self)))

__sub__(h, self, other) ==
    IF other.t = "Money" THEN __init__(h, IntSub(amount(h, self), amount(h, other.n)))
    ELSE IF IsError(__assert_amount(other)) THEN Out(h, __assert_amount(other))
    ELSE __init__(h, IntSub(amount(h, self), other))

__neg__(h, self) == __init__(h, IntNeg(amount(h, self)))

\* __rsub__ as self.__sub__(other).
__rsub__unreflected(h, self, other) == __sub__(h, self, other)

\* (-self).__add__(other): the negated Money is an instance of its own.
__rsub__(h, self, other) ==
    LET neg == __neg__(h, self)
    IN  __add__(neg.heap, neg.res.n, other)

__mul__(h, self, factor) ==
    IF IsError(__assert_operand(factor)) THEN Out(h, __assert_operand(factor))
    ELSE New(h, PyRound(PyMul(amount(h, self), factor)))

__rmul__(h, self, factor) == __mul__(h, self, factor)

__truediv__(h, self, other) ==
    IF other.t = "Money"
    THEN IF IsZero(amount(h, other.n)) THEN Out(h, Raise("ZeroDivisionError"))
         ELSE Out(h, PyRound(PyTrueDiv(amount(h, self), amount(h, other.n))))
    ELSE IF IsError(__assert_operand(other)) THEN Out(h, __assert_operand(other))
    ELSE IF IsZero(other) THEN Out(h, Raise("ZeroDivisionError"))
    ELSE New(h, PyRound(PyTrueDiv(amount(h, self), other)))

\* __floordiv__ answering 0 for a Money divisor of amount 0.
__floordiv__zero_quotient(h, self, other) ==
    IF other.t = "Money"
    THEN IF IsZero(amount(h, other.n)) THEN Out(h, PyInt(0))
         ELSE Out(h, FloorDiv(amount(h, self), amount(h, other.n)))
    ELSE IF IsError(__assert_operand(other)) THEN Out(h, __assert_operand(other))
    ELSE IF IsZero(other) THEN Out(h, Raise("ZeroDivisionError"))
    ELSE New(h, PyFloorDiv(amount(h, self), other))

__floordiv__(h, self, other) ==
    IF other.t = "Money"
    THEN IF IsZero(amount(h, other.n)) THEN Out(h, Raise("ZeroDivisionError"))
         ELSE Out(h, FloorDiv(amount(h, self), amount(h, other.n)))
    ELSE IF IsError(__assert_operand(other)) THEN Out(h, __assert_operand(other))
    ELSE IF IsZero(other) THEN Out(h, Raise("ZeroDivisionError"))
    ELSE New(h, PyFloorDiv(amount(h, self), other))

__eq__(h, self, other) ==
    IF other.t = "Money" THEN Out(h, PyBool(IntEq(amount(h, self), amount(h, other.n))))
    ELSE IF IsError(__assert_amount(other)) THEN Out(h, __assert_amount(other))
    ELSE Out(h, PyBool(IntEq(amount(h, self), other)))

\* operator.gt, operator.ge, operator.lt, operator.le on two ints.
Operator(name, a, b) ==
    CASE name = "gt" -> IntLess(b, a)
      [] name = "ge" -> ~IntLess(a, b)
      [] name = "lt" -> IntLess(a, b)
      [] name = "le" -> ~IntLess(b, a)

__compare(h, self, other, comparison_operator) ==
    IF other.t = "Money"
    THEN Out(h, PyBool(Operator(comparison_operator, amount(h, self), amount(h, other.n))))
    ELSE IF IsError(__assert_amount(other)) THEN Out(h, __assert_amount(other))
    ELSE Out(h, PyBool(Operator(comparison_operator, amount(h, self), other)))

__gt__(h, self, other) == __compare(h, self, other, "gt")

__ge__(h, self, other) == __compare(h, self, other, "ge")

__lt__(h, self, other) == __compare(h, self, other, "lt")

__le__(h, self, other) == __compare(h, self, other, "le")

\* rounded * 100 for the int rounded, or the exception raised computing it.
Hundredfold(rounded) == IF IsError(rounded) THEN rounded ELSE IntMul(rounded, PyInt(100))

\* Decimal(self.amount / 100) quantized to a whole number, half-even, times 100.
__round__(h, self) ==
    New(h, Hundredfold(Quantized(PyTrueDiv(amount(h, self), PyInt(100)))))

\* The amount itself, a bool amount as the bool.
__int__(h, self) == Out(h, amount(h, self))

\* round(self.amount / 100, 2).
__float__(h, self) == Out(h, PyRound2(PyTrueDiv(amount(h, self), PyInt(100))))

__pos__(h, self) == __init__(h, IntPos(amount(h, self)))

\* __abs__ changing self in place and returning it.
__abs__in_place(h, self) == Out([h EXCEPT ![self] = IntAbs(h[self])], MoneyRef(self))

__abs__(h, self) == __init__(h, IntAbs(amount(h, self)))

\* ------------------------------------------------------------- inputs

SmallAmounts == -MaxAmt..MaxAmt

\* The amounts at and next to whole and half major units.
UnitAmounts == {50 * u + e : u \in -MaxHalf..MaxHalf, e \in -1..1}

Amounts == SmallAmounts \cup UnitAmounts

\* Amounts from 2^53 on, where not every int is a double, in minor and in
\* major units; 10^31, of more major units than the decimal context's precision
\* has digits, and 2^1100, above every double.
LargeAmounts ==
    {Long(sign, Multiply(Natural(unit), Plus(ShiftLeft(<<1>>, 53), Natural(k), 0))) :
        sign \in {1, -1}, unit \in {1, 100}, k \in 0..MaxOver}
        \cup {Long(1, PowerOfTen(31)), Long(1, ShiftLeft(<<1>>, 1100))}

Ints == {PyInt(k) : k \in -MaxInt..MaxInt}

\* Whole numbers, halves and tenths, and the factor 1.0009 of the tests.
FiniteFloats ==
    {PyFloat(nd[1], nd[2]) : nd \in ((-MaxNum..MaxNum) \X {1, 2, 10}) \cup {<<10009, 10000>>}}

Floats == FiniteFloats \cup {Inf, NegInf, NaN}

\* What is neither a number nor a Money: a str.
NonNumbers == {Text(<<"1", "0">>)}

Plain == Ints \cup {PyBool(TRUE), PyBool(FALSE)} \cup Floats \cup NonNumbers

Operands(h) == Plain \cup {MoneyRef(i) : i \in DOMAIN h}

RECURSIVE DigitsOf(_)
\* The ASCII decimal digits of n >= 0.
DigitsOf(n) ==
    IF n < 10 THEN <<Ord("0") + n>> ELSE Append(DigitsOf(n \div 10), Ord("0") + (n % 10))

RECURSIVE Grouped(_)
\* Digits with a "," before every group of three.
Grouped(ds) ==
    IF Len(ds) <= 3 THEN ds
    ELSE Grouped(SubSeq(ds, 1, Len(ds) - 3)) \o <<Ord(",")>> \o SubSeq(ds, Len(ds) - 2, Len(ds))

\* A currency string: prefix, major units, ".", two digits of minor units.
Currency(prefix, major, minor) ==
    prefix \o Grouped(DigitsOf(major)) \o <<Ord(".")>> \o DigitsOf(minor \div 10) \o DigitsOf(minor % 10)

Majors == 0..MaxMajor \cup {1234, 6150593}

Prefixes == {<<>>, <<Ord("$")>>}

CurrencyStrings ==
    {PyStr(Currency(p, major, minor)) : p \in Prefixes, major \in Majors, minor \in 0..99}

\* Strings of other shapes: empty, no point, one or three fraction digits, a
\* sign, two points, digits of other scripts (Arabic-Indic, fullwidth), and
\* amounts of 2^31 minor units and of more than a double holds exactly.
OtherStrings ==
    {Text(<<>>), Text(<<"$">>), Text(<<"7">>), Text(<<"1", ".", "5">>),
     Text(<<"-", "$", "5", ".", "0", "0">>), Text(<<"1", ".", "2", ".", "3">>),
     Text(<<".", "5">>), Text(<<"5", ".">>),
     Text(<<"1", "0", ".", "0", "0", "0">>), Text(<<"1", ".", "2", "3", "4">>),
     Text(<<"$", "0", ".", "1", "2", "5">>),
     PyStr(<<1635, Ord("."), Ord("5"), Ord("0")>>), PyStr(<<65297, 65298>>),
     Text(<<"$", "2", "1", ",", "4", "7", "4", ",", "8", "3", "6", ".", "4", "8">>),
     Text(<<"9", "9", "9", "9", "9", "9", "9", "9", "9", "9", "9", "9", "9", "9", "9", "9", "9",
            "9", "9", "9", ".", "9", "9">>)}

\* The doubles nearest to the amounts of whole minor units, and eighths and
\* thousandths.
CentFloats ==
    {PyFloat(nd[1], nd[2]) :
        nd \in ((-(100 * MaxMajor + 99)..(100 * MaxMajor + 99)) \X {100})
                  \cup ((-(10 * MaxMajor)..(10 * MaxMajor)) \X {8, 1000})
                  \cup {<<1234, 1000>>}}

\* ------------------------------------------------------------ actions

NoCall == [op |-> "none", self |-> 0, other |-> None]

\* One call of an operation: what it leaves on the heap and its result.
Apply(op, self, other, out) ==
    /\ pc = "ready"
    /\ pc' = "done"
    /\ call' = [op |-> op, self |-> self, other |-> other]
    /\ heap' = out.heap
    /\ res' = out.res

Construct ==
    \E x \in Plain \cup {Decimal(<<Ord("1"), Ord("0"), Ord("0"), Ord("0")>>)}
                 \cup {MoneyRef(i) : i \in DOMAIN heap} :
        Apply("Money", 0, x, __init__(heap, x))

FromFloat ==
    \E x \in Floats \cup CentFloats \cup Ints :
        Apply("from_float", 0, x, from_float(heap, x))

FromString ==
    \E x \in CurrencyStrings \cup OtherStrings \cup Ints :
        Apply("from_string", 0, x, from_string(heap, x))

Instance ==
    \E self \in DOMAIN heap, x \in Operands(heap) : Apply("instance", self, x, instance(heap, self, x))

Add == \E self \in DOMAIN heap, x \in Operands(heap) : Apply("add", self, x, __add__(heap, self, x))

\* other + self: Python calls __radd__ when other is no Money.
RAdd == \E self \in DOMAIN heap, x \in Plain : Apply("radd", self, x, __radd__(heap, self, x))

Sub == \E self \in DOMAIN heap, x \in Operands(heap) : Apply("sub", self, x, __sub__(heap, self, x))

RSub == \E self \in DOMAIN heap, x \in Plain : Apply("rsub", self, x, __rsub__(heap, self, x))

Mul == \E self \in DOMAIN heap, x \in Operands(heap) : Apply("mul", self, x, __mul__(heap, self, x))

RMul == \E self \in DOMAIN heap, x \in Plain : Apply("rmul", self, x, __rmul__(heap, self, x))

TrueDiv ==
    \E self \in DOMAIN heap, x \in Operands(heap) : Apply("truediv", self, x, __truediv__(heap, self, x))

FloorDivide ==
    \E self \in DOMAIN heap, x \in Operands(heap) : Apply("floordiv", self, x, __floordiv__(heap, self, x))

Eq == \E self \in DOMAIN heap, x \in Operands(heap) : Apply("eq", self, x, __eq__(heap, self, x))

Gt == \E self \in DOMAIN heap, x \in Operands(heap) : Apply("gt", self, x, __gt__(heap, self, x))

Ge == \E self \in DOMAIN heap, x \in Operands(heap) : Apply("ge", self, x, __ge__(heap, self, x))

Lt == \E self \in DOMAIN heap, x \in Operands(heap) : Apply("lt", self, x, __lt__(heap, self, x))

Le == \E self \in DOMAIN heap, x \in Operands(heap) : Apply("le", self, x, __le__(heap, self, x))

Round == \E self \in DOMAIN heap : Apply("round", self, None, __round__(heap, self))

\* m.__int__(), whose result int(m) makes an int.
ToInt == \E self \in DOMAIN heap : Apply("int", self, None, __int__(heap, self))

ToFloat == \E self \in DOMAIN heap : Apply("float", self, None, __float__(heap, self))

Neg == \E self \in DOMAIN heap : Apply("neg", self, None, __neg__(heap, self))

Pos == \E self \in DOMAIN heap : Apply("pos", self, None, __pos__(heap, self))

AbsoluteValue == \E self \in DOMAIN heap : Apply("abs", self, None, __abs__(heap, self))

\* ----------------------------------------------------- specifications

\* One operation on Money instances that exist: one, of any amount or of the
\* amount True, or two of small amounts.
Init ==
    /\ heap \in {<<PyInt(m)>> : m \in Amounts} \cup {<<PyBool(TRUE)>>}
                 \cup {<<PyInt(a), PyInt(b)>> : a \in SmallAmounts, b \in SmallAmounts}
    /\ pc = "ready"
    /\ call = NoCall
    /\ res = None

Next ==
    \/ Instance
    \/ Add
    \/ RAdd
    \/ Sub
    \/ RSub
    \/ Mul
    \/ RMul
    \/ TrueDiv
    \/ FloorDivide
    \/ Eq
    \/ Gt
    \/ Ge
    \/ Lt
    \/ Le
    \/ Round
    \/ ToInt
    \/ ToFloat
    \/ Neg
    \/ Pos
    \/ AbsoluteValue

Spec == Init /\ [][Next]_vars

\* One construction: by Money(...), from_float or from_string.
InitConstruct ==
    /\ heap \in {<<>>} \cup {<<PyInt(m)>> : m \in SmallAmounts}
    /\ pc = "ready"
    /\ call = NoCall
    /\ res = None

NextConstruct ==
    \/ Construct
    \/ FromFloat
    \/ FromString

SpecConstruct == InitConstruct /\ [][NextConstruct]_vars

\* One division or rounding of a Money of a large amount, alone or with a
\* Money of a small one.
InitLarge ==
    /\ heap \in {<<a>> : a \in LargeAmounts}
                 \cup {<<a, PyInt(b)>> : a \in LargeAmounts, b \in 1..MaxInt}
    /\ pc = "ready"
    /\ call = NoCall
    /\ res = None

NextLarge ==
    \/ TrueDiv
    \/ Round

SpecLarge == InitLarge /\ [][NextLarge]_vars

\* --------------------------------------------------------- properties

\* The value of the int or bool a, -2^31 < a < 2^31.
IntValue(a) == a.n * Value(a.m)

\* The call made, its operands and its result.
Called(ops) == pc = "done" /\ call.op \in ops

SelfAmount == IntValue(heap[call.self])

OtherIsInt == call.other.t = "int"

OtherIsFloat == call.other.t = "float"

OtherIsMoney == call.other.t = "Money"

OtherInt == IntValue(call.other)

OtherAmount == IntValue(heap[call.other.n])

ReturnsMoney == res.t = "Money"

ResultAmount == IntValue(heap[res.n])

\* The finite number x is Numerator(x) / Denominator(x).
Numerator(x) ==
    IF IsInt(x) THEN IntValue(x) ELSE x.n * Value(x.m) * 2 ^ (IF x.d > 0 THEN x.d ELSE 0)

Denominator(x) == IF IsInt(x) THEN 1 ELSE 2 ^ (IF x.d < 0 THEN -x.d ELSE 0)

\* q is the floor of a / b (b # 0).
IsFloorOf(q, a, b) ==
    IF b > 0 THEN q * b <= a /\ a < (q + 1) * b
    ELSE q * b >= a /\ a > (q + 1) * b

\* Twice the distance of the int q * b from the int a.
TwiceOff(q, a, b) == ShiftLeft(IntSub(IntMul(q, b), a).m, 1)

\* The int q is the integer nearest to a / b for the ints a and b # 0, of any
\* size, the even one of two equally near.
IsNearestEven(q, a, b) ==
    /\ Compare(TwiceOff(q, a, b), b.m) <= 0
    /\ Compare(TwiceOff(q, a, b), b.m) = 0 => Digit(q.m, 1) % 2 = 0

\* C1: for every Money m and integer k, (m + k) - k == m and (m - k) + k == m.
C1_AddSubtractInverse ==
    (Called({"add", "sub"}) /\ OtherIsInt) =>
        /\ ReturnsMoney
        /\ LET back == IF call.op = "add" THEN __sub__(heap, res.n, call.other)
                       ELSE __add__(heap, res.n, call.other)
           IN  /\ back.res.t = "Money"
               /\ __eq__(back.heap, back.res.n, MoneyRef(call.self)).res = PyBool(TRUE)

C1_Witness ==
    /\ Called({"add"}) /\ OtherIsInt /\ OtherInt # 0
    /\ ReturnsMoney /\ ResultAmount # SelfAmount

\* The divisor of the call is zero: the int 0, the float 0.0 or a Money of amount 0.
ZeroDivisor ==
    \/ (OtherIsInt \/ OtherIsFloat) /\ IsZero(call.other)
    \/ OtherIsMoney /\ OtherAmount = 0

\* C2: m / x and m // x fail with ZeroDivisionError (DivisionByZero) whenever x
\* is the int 0, the float 0.0 or a Money of amount 0, and return nothing.
C2_DivisionByZero ==
    (Called({"truediv", "floordiv"}) /\ ZeroDivisor) => res = Raise("ZeroDivisionError")

C2_Witness ==
    /\ Called({"floordiv"}) /\ OtherIsMoney /\ OtherAmount = 0 /\ SelfAmount # 0
    /\ res.t = "ZeroDivisionError"

RoundedToMoney(x) ==
    /\ IsFinite(x) => ReturnsMoney
    /\ IsInf(x) => res.t = "OverflowError"
    /\ IsNaN(x) => res.t = "ValueError"

C4_Original ==
    (Called({"floordiv"}) /\ OtherIsMoney /\ OtherAmount # 0) =>
        ReturnsMoney /\ IsFloorOf(ResultAmount, SelfAmount, OtherAmount)

\* C5: for every nonzero plain divisor d, an int or a float, m // d returns a
\* Money whose amount is the floor of m.amount / d, and never fails with
\* ValueError (InvalidAmount, InvalidOperand).
C5_FloorDividePlain ==
    (Called({"floordiv"}) /\ (OtherIsInt \/ OtherIsFloat) /\ IsFinite(call.other)
        /\ ~IsZero(call.other)) =>
        /\ ReturnsMoney
        /\ IsFloorOf(ResultAmount, SelfAmount * Denominator(call.other), Numerator(call.other))

\* C6: for a nonzero int d, m / d is a new Money whose amount is the integer
\* nearest to m.amount / d, an exact half going to the even neighbour; for a
\* Money b, b.amount # 0, m / b is that quotient of the amounts as a plain int.
C6_TrueDivide ==
    /\ (Called({"truediv"}) /\ OtherIsInt /\ ~IsZero(call.other)) =>
          ReturnsMoney /\ IsNearestEven(heap[res.n], heap[call.self], call.other)
    /\ (Called({"truediv"}) /\ OtherIsMoney /\ ~IsZero(heap[call.other.n])) =>
          res.t = "int" /\ IsNearestEven(res, heap[call.self], heap[call.other.n])

\* C7: round(m) is a new Money whose amount is a multiple of 100: 100 times the
\* whole number nearest to m.amount / 100, an amount halfway between two whole
\* units going to the even one.
C7_Round ==
    Called({"round"}) =>
        /\ ReturnsMoney
        /\ DivMod(heap[res.n].m, Natural(100)).r = <<>>
        /\ IsNearestEven(Long(heap[res.n].n, DivMod(heap[res.n].m, Natural(100)).q),
                         heap[call.self], PyInt(100))

\* C8: for a currency string writing major units, a point and two digits of
\* minor units, with or without a currency symbol and thousands separators,
\* from_string returns a Money of amount exactly 100 * major + minor.
C8_FromStringExact ==
    (Called({"from_string"}) /\ call.other \in CurrencyStrings) =>
        /\ ReturnsMoney
        /\ \A p \in Prefixes, major \in Majors, minor \in 0..99 :
              call.other.s = Currency(p, major, minor) => ResultAmount = 100 * major + minor

\* C9: for an int k on the left, k + m equals m + k, a Money of amount
\* m.amount + k, and k - m is a Money of amount k - m.amount, the negation of
\* m - k.
C9_Reflected ==
    /\ (Called({"radd"}) /\ OtherIsInt) =>
          /\ ReturnsMoney
          /\ ResultAmount = SelfAmount + OtherInt
          /\ LET sum == __add__(heap, call.self, call.other)
             IN  __eq__(sum.heap, res.n, sum.res).res = PyBool(TRUE)
    /\ (Called({"rsub"}) /\ OtherIsInt) =>
          /\ ReturnsMoney
          /\ ResultAmount = OtherInt - SelfAmount
          /\ LET difference == __sub__(heap, call.self, call.other)
                 negated    == __neg__(difference.heap, difference.res.n)
             IN  __eq__(negated.heap, res.n, negated.res).res = PyBool(TRUE)

C9_Witness ==
    /\ Called({"rsub"}) /\ OtherIsInt /\ OtherInt # SelfAmount
    /\ ReturnsMoney /\ ResultAmount = OtherInt - SelfAmount

\* C10: a Money is immutable: whatever operation is called, and whether it
\* returns or raises, every Money that exists keeps its amount, and a Money it
\* returns is a new instance.
C10_Immutable ==
    [][/\ \A i \in DOMAIN heap : i \in DOMAIN heap' /\ heap'[i] = heap[i]
       /\ res'.t = "Money" => res'.n \in DOMAIN heap' \ DOMAIN heap]_vars

C10_Witness ==
    /\ Called({"pos"}) /\ ReturnsMoney
    /\ res.n # call.self /\ ResultAmount = SelfAmount

====
